---- MODULE Spec2Model ----
(***************************************************************************)
(* Synchronous data-parallel training with a hand-written all-reduce:      *)
(* src/src/Part 2a/main.py.  Every rank runs run() -> train_model() ->     *)
(* average_gradients() -> test_model(); rank 0 is the root of every        *)
(* gather/scatter round.                                                   *)
(*                                                                         *)
(* Tensors are sequences of exact rationals <<numerator, denominator>>.    *)
(* The transport (torch.distributed, gloo) is a pair of FIFO channels      *)
(* between the root and every other rank; a send completes once the        *)
(* message is queued, which covers a transport that completes it only at   *)
(* the matching receive (the sender then merely moves on later).           *)
(***************************************************************************)
EXTENDS Integers, Sequences, FiniteSets, TLC

\* ---------------------------------------------------------------- bounds
MaxWorkers == 3
NumParams == 2
NumEpochs == 2
NumBatches == 2

\* ------------------------------------------------------ program constants
GlobalBatch == 256
Root == 0

\* what one batch of the shard can be, as far as the gradient depends on it
BatchData == {0, 1}

VARIABLES
    size,        \* dist.get_world_size(), --num-nodes
    epochs,      \* --epochs
    nbatches,    \* len(train_loader), the same on every rank
    pc,          \* pc[w]: the place of rank w in run()
    status,      \* status[w]: "running", "halted" or the exception that ended w
    batch_size,  \* run's local batch_size
    epoch,       \* run's loop variable
    batch_idx,   \* train_model's loop variable
    iter_number, \* train_model's iter_number
    mode,        \* model.training: "train" or "eval"
    pshape,      \* pshape[w][p]: number of elements of parameter p on rank w
    param,       \* param[w][p]: the parameter value, as its update history
    grad,        \* grad[w][p]: p.grad
    pidx,        \* position of average_gradients' loop over model.parameters()
    inputs,      \* the root's gather list, by rank
    toRoot,      \* toRoot[r]: gather messages in flight from rank r
    fromRoot,    \* fromRoot[r]: scatter messages in flight to rank r
    shard,       \* shard[w]: the training data the sampler gives rank w
    data,        \* data[w]: the batch of the current step
    epoch_loss,  \* train_model's epoch_loss, as the number of losses summed in it
    forward_time,  \* train_model's forward_time, as the number of steps timed in it
    backward_time, \* train_model's backward_time, likewise
    total_time,  \* train_model's total_time, likewise
    printed      \* printed[w]: what train_model has printed, in order

vars == <<size, epochs, nbatches, pc, status, batch_size, epoch, batch_idx,
          iter_number, mode,
          pshape, param, grad, pidx, inputs, toRoot, fromRoot, shard, data,
          epoch_loss, forward_time, backward_time, total_time, printed>>

\* train_model's accumulators and its output
stats == <<epoch_loss, forward_time, backward_time, total_time, printed>>

Workers == 0 .. (size - 1)
NonRoot == Workers \ {Root}
Params == 1 .. NumParams

\* ------------------------------------------------------------- rationals
RECURSIVE GCD(_, _)
GCD(a, b) == IF b = 0 THEN a ELSE GCD(b, a % b)

\* the fraction in lowest terms (v is x, evaluated once)
Norm(x) ==
    LET Lowest(v) ==
            LET g == GCD(v[1], v[2])
            IN  IF g = 0 THEN v ELSE <<v[1] \div g, v[2] \div g>>
    IN  CHOOSE r \in {Lowest(v) : v \in {x}} : TRUE

RAdd(x, y) == Norm(<<x[1] * y[2] + y[1] * x[2], x[2] * y[2]>>)

RDiv(x, k) == Norm(<<x[1], x[2] * k>>)

Int2R(n) == <<n, 1>>

Zero(len) == [i \in 1 .. len |-> Int2R(0)]

\* ------------------------------------------------------------ the model
ParamShape(p) == p

\* line 20 seeding by rank
ManualSeedByRank(rank) == rank

\* torch.manual_seed(0) on every rank: the seed run() gives the generator
ManualSeed(rank) == 0

\* mdl.VGG11(): the initial value of parameter p under the seeded generator
InitParam(rank, p) == <<[seed |-> ManualSeed(rank), p |-> p]>>

\* enumerate(train_loader): batch b of a shard (the sampler is not reshuffled)
Batch(sh, b) == sh + b

\* loss.backward(): the gradient of parameter p, of value theta, on batch x
GradOf(x, theta, p, len) == [i \in 1 .. len |-> Int2R(x * (p + i) + Len(theta) - 1)]

\* line 22 dividing by one too many
LocalBatchOff(b, n) == b \div (n + 1)

\* int(batch_size / float(dist.get_world_size()))
LocalBatch(b, n) == b \div n

\* torch.mean(torch.stack(inputs), dim=0), summed in list order
RECURSIVE SumAt(_, _, _)
SumAt(list, i, k) ==
    IF k = 0 THEN Int2R(0) ELSE RAdd(SumAt(list, i, k - 1), list[k][i])

\* line 122 with torch.sum in place of torch.mean
MeanSum(list) ==
    [i \in 1 .. Len(list[1]) |-> SumAt(list, i, Len(list))]

Mean(list) ==
    [i \in 1 .. Len(list[1]) |-> RDiv(SumAt(list, i, Len(list)), Len(list))]

\* the step a rank is in, counted over the run
StepOf(w) == epoch[w] * nbatches + batch_idx[w]

NoMsg == [val |-> <<>>, step |-> -1, p |-> 0]

Msg(w) == [val |-> grad[w][pidx[w]], step |-> StepOf(w), p |-> pidx[w]]

\* line 120 hoisted out of the loop: the list of the round before is used again
StaleInputs == inputs

\* line 120: the root's receive buffers, one per rank, before anything arrives
FreshInputs == [r \in Workers |-> NoMsg]

\* the list torch.stack sees: rank r's tensor at index r + 1 (the root's own
\* p.grad at index 1; a buffer nothing was received into is as torch.empty left it)
Gathered ==
    [k \in 1 .. size |->
        IF k = 1 THEN grad[Root][pidx[Root]]
        ELSE IF inputs[k - 1] = NoMsg THEN Zero(Len(grad[Root][pidx[Root]]))
        ELSE inputs[k - 1].val]

\* line 121 without the wait: the root goes on before every tensor is in
GatherNoWait == TRUE

\* line 121: the root's dist.gather returns once every other rank's tensor is in
GatherComplete == \A r \in NonRoot : inputs[r] # NoMsg

\* line 123 handing back the gathered list instead of the mean
ScatterOutGathered(r, avg_grad) == Gathered[r + 1]

\* line 123: outputs[r], what the root's scatter hands rank r
ScatterOut(r, avg_grad) == avg_grad

\* the scatter message of the root's current round for rank r
OutMsg(r, avg_grad) ==
    [val |-> ScatterOut(r, avg_grad), step |-> StepOf(Root), p |-> pidx[Root]]

\* average_gradients wrapped in a try/except that goes on
RunningAlways(w) == TRUE

\* no exception has ended the rank's run() and it has not stopped
Running(w) == status[w] = "running"

\* ------------------------------------------------------------------ Init
InitCommon ==
    /\ size \in 1 .. MaxWorkers
    /\ epochs = NumEpochs
    /\ nbatches = NumBatches
    /\ pc = [w \in Workers |-> "init"]
    /\ status = [w \in Workers |-> "running"]
    /\ batch_size = [w \in Workers |-> GlobalBatch]
    /\ epoch = [w \in Workers |-> 0]
    /\ batch_idx = [w \in Workers |-> 0]
    /\ iter_number = [w \in Workers |-> 0]
    /\ mode = [w \in Workers |-> "train"]
    /\ param = [w \in Workers |-> [p \in Params |-> <<>>]]
    /\ grad = [w \in Workers |-> [p \in Params |-> <<>>]]
    /\ pidx = [w \in Workers |-> 0]
    /\ inputs = [w \in Workers |-> NoMsg]
    /\ toRoot = [w \in Workers |-> <<>>]
    /\ fromRoot = [w \in Workers |-> <<>>]
    /\ shard \in [Workers -> BatchData]
    /\ data = [w \in Workers |-> 0]
    /\ epoch_loss = [w \in Workers |-> 0]
    /\ forward_time = [w \in Workers |-> 0]
    /\ backward_time = [w \in Workers |-> 0]
    /\ total_time = [w \in Workers |-> 0]
    /\ printed = [w \in Workers |-> <<>>]

Init ==
    /\ InitCommon
    /\ pshape = [w \in Workers |-> [p \in Params |-> ParamShape(p)]]

\* --------------------------------------------------------------- actions
\* run(), lines 19-62: the local batch size and the model
RunSetup(w) ==
    /\ Running(w) /\ pc[w] = "init"
    /\ batch_size' = [batch_size EXCEPT ![w] = LocalBatch(batch_size[w], size)]
    /\ param' = [param EXCEPT ![w] = [p \in Params |-> InitParam(w, p)]]
    /\ pc' = [pc EXCEPT ![w] = "train_begin"]
    /\ UNCHANGED <<stats, size, epochs, nbatches, status, epoch, batch_idx, iter_number, mode, pshape,
                   grad, pidx, inputs, toRoot, fromRoot, data, shard>>

\* train_model, lines 80-84
TrainBegin(w) ==
    /\ Running(w) /\ pc[w] = "train_begin"
    /\ iter_number' = [iter_number EXCEPT ![w] = 1]
    /\ epoch_loss' = [epoch_loss EXCEPT ![w] = 0]
    /\ forward_time' = [forward_time EXCEPT ![w] = 0]
    /\ backward_time' = [backward_time EXCEPT ![w] = 0]
    /\ total_time' = [total_time EXCEPT ![w] = 0]
    /\ batch_idx' = [batch_idx EXCEPT ![w] = 0]
    /\ pc' = [pc EXCEPT ![w] = "forward"]
    /\ UNCHANGED <<printed, size, epochs, nbatches, status, batch_size, epoch, mode, pshape, param, grad,
                   pidx, inputs, toRoot, fromRoot, data, shard>>

\* lines 86-90: next batch, optimizer.zero_grad(), model(data)
Forward(w) ==
    /\ Running(w) /\ pc[w] = "forward"
    /\ data' = [data EXCEPT ![w] = Batch(shard[w], batch_idx[w])]
    /\ grad' = [grad EXCEPT ![w] = [p \in Params |-> Zero(pshape[w][p])]]
    /\ forward_time' = [forward_time EXCEPT ![w] = @ + 1]
    /\ pc' = [pc EXCEPT ![w] = "backward"]
    /\ UNCHANGED <<epoch_loss, backward_time, total_time, printed, size, epochs, nbatches, status, batch_size, epoch, batch_idx, iter_number,
                   mode, pshape, param, pidx, inputs, toRoot, fromRoot, shard>>

\* lines 95 and 96 the wrong way round: optimizer.step() before the averaging
BackwardLocalThenStep(w) ==
    /\ Running(w) /\ pc[w] = "backward"
    /\ grad' = [grad EXCEPT ![w] =
                  [p \in Params |-> GradOf(data[w], param[w][p], p, pshape[w][p])]]
    /\ pidx' = [pidx EXCEPT ![w] = 1]
    /\ pc' = [pc EXCEPT ![w] = "optstep"]
    /\ UNCHANGED <<stats, size, epochs, nbatches, status, batch_size, epoch, batch_idx, iter_number,
                   mode, pshape, param, inputs, toRoot, fromRoot, data, shard>>

\* lines 93-95: loss.backward(), then the call of average_gradients
BackwardLocal(w) ==
    /\ Running(w) /\ pc[w] = "backward"
    /\ grad' = [grad EXCEPT ![w] =
                  [p \in Params |-> GradOf(data[w], param[w][p], p, pshape[w][p])]]
    /\ pidx' = [pidx EXCEPT ![w] = 1]
    /\ pc' = [pc EXCEPT ![w] = "gather"]
    /\ UNCHANGED <<stats, size, epochs, nbatches, status, batch_size, epoch, batch_idx, iter_number,
                   mode, pshape, param, inputs, toRoot, fromRoot, data, shard>>

\* line 118 leaving the loop after its first parameter
AfterRoundFirstOnly(w) == "optstep"

\* where a rank goes when it returns from the round of parameter pidx
AfterRound(w) == IF pidx[w] < NumParams THEN "gather" ELSE "optstep"

\* lines 126 and 127 the wrong way round: the rank waits in scatter, nothing sent
NonRootGatherNoSend(w) ==
    /\ Running(w) /\ w # Root /\ pc[w] = "gather"
    /\ pc' = [pc EXCEPT ![w] = "scatter"]
    /\ UNCHANGED <<stats, size, epochs, nbatches, status, batch_size, epoch, batch_idx, iter_number,
                   mode, pshape, param, grad, pidx, inputs, toRoot, fromRoot, data, shard>>

\* line 126: dist.gather(p.grad) on a rank other than the root
NonRootGather(w) ==
    /\ Running(w) /\ w # Root /\ pc[w] = "gather"
    /\ toRoot' = [toRoot EXCEPT ![w] = Append(@, Msg(w))]
    /\ pc' = [pc EXCEPT ![w] = "scatter"]
    /\ UNCHANGED <<stats, size, epochs, nbatches, status, batch_size, epoch, batch_idx, iter_number,
                   mode, pshape, param, grad, pidx, inputs, fromRoot, data, shard>>

\* lines 120-121: the root's gather takes the tensor of rank r into inputs[r]
RootGatherRecv(r) ==
    /\ Running(Root) /\ r \in NonRoot /\ pc[Root] = "gather"
    /\ inputs[r] = NoMsg
    /\ toRoot[r] # <<>>
    /\ Len(Head(toRoot[r]).val) = Len(grad[Root][pidx[Root]])
    /\ inputs' = [inputs EXCEPT ![r] = Head(toRoot[r])]
    /\ toRoot' = [toRoot EXCEPT ![r] = Tail(@)]
    /\ UNCHANGED <<stats, size, epochs, nbatches, pc, status, batch_size, epoch, batch_idx, iter_number,
                   mode, pshape, param, grad, pidx, fromRoot, data, shard>>

\* lines 121-124: gather returns, the mean, and the root's scatter
RootReduceScatter ==
    /\ Running(Root) /\ pc[Root] = "gather"
    /\ GatherComplete
    /\ LET avg_grad == Mean(Gathered)
       IN  /\ fromRoot' = [r \in Workers |->
                             IF r = Root THEN fromRoot[r]
                             ELSE Append(fromRoot[r], OutMsg(r, avg_grad))]
           /\ grad' = [grad EXCEPT ![Root][pidx[Root]] = ScatterOut(Root, avg_grad)]
    /\ inputs' = FreshInputs
    /\ pc' = [pc EXCEPT ![Root] = AfterRound(Root)]
    /\ pidx' = [pidx EXCEPT ![Root] = @ + 1]
    /\ UNCHANGED <<stats, size, epochs, nbatches, status, batch_size, epoch, batch_idx, iter_number,
                   mode, pshape, param, toRoot, data, shard>>

\* line 127: dist.scatter(p.grad) on a rank other than the root
NonRootScatter(w) ==
    /\ Running(w) /\ w # Root /\ pc[w] = "scatter"
    /\ fromRoot[w] # <<>>
    /\ Len(Head(fromRoot[w]).val) = Len(grad[w][pidx[w]])
    /\ grad' = [grad EXCEPT ![w][pidx[w]] = Head(fromRoot[w]).val]
    /\ fromRoot' = [fromRoot EXCEPT ![w] = Tail(@)]
    /\ pc' = [pc EXCEPT ![w] = AfterRound(w)]
    /\ pidx' = [pidx EXCEPT ![w] = @ + 1]
    /\ UNCHANGED <<stats, size, epochs, nbatches, status, batch_size, epoch, batch_idx, iter_number,
                   mode, pshape, param, inputs, toRoot, data, shard>>

\* line 96: optimizer.step(); the update is kept as the history of what was applied
OptimizerStep(w) ==
    /\ Running(w) /\ pc[w] = "optstep"
    /\ param' = [param EXCEPT ![w] = [p \in Params |-> Append(param[w][p], grad[w][p])]]
    /\ pc' = [pc EXCEPT ![w] = "done"]
    /\ UNCHANGED <<stats, size, epochs, nbatches, status, batch_size, epoch, batch_idx, iter_number,
                   mode, pshape, grad, pidx, inputs, toRoot, fromRoot, data, shard>>

\* line 102 reporting one step late
IsReportStepOff(n) == n % 20 = 1

\* line 102: the steps train_model reports at
IsReportStep(n) == n % 20 = 0

\* line 106: the reports that carry the timing lines too
ReportsTiming(n) == n # 20

\* line 104: the loss line, epoch_loss / 20 of the losses summed since the reset
LossLine(w, n) == [kind |-> "loss", epoch |-> epoch[w], iter |-> iter_number[w], over |-> n]

\* lines 107-109: the three timing lines, each a sum since the reset over 20.0
TimeLines(w, f, b, t) ==
    [kind |-> "time", epoch |-> epoch[w], iter |-> iter_number[w],
     forward |-> f, backward |-> b, total |-> t]

\* lines 97-114 and the loop of line 86: the timers, the loss, the report of
\* every 20th step, and the step is over
StepDone(w) ==
    /\ Running(w) /\ pc[w] = "done"
    /\ LET bt == backward_time[w] + 1
           tt == total_time[w] + 1
           el == epoch_loss[w] + 1
       IN  IF IsReportStep(iter_number[w])
             THEN /\ printed' = [printed EXCEPT ![w] =
                        @ \o <<LossLine(w, el)>> \o
                          (IF ReportsTiming(iter_number[w])
                             THEN <<TimeLines(w, forward_time[w], bt, tt)>>
                             ELSE <<>>)]
                  /\ epoch_loss' = [epoch_loss EXCEPT ![w] = 0]
                  /\ forward_time' = [forward_time EXCEPT ![w] = 0]
                  /\ backward_time' = [backward_time EXCEPT ![w] = 0]
                  /\ total_time' = [total_time EXCEPT ![w] = 0]
             ELSE /\ printed' = printed
                  /\ epoch_loss' = [epoch_loss EXCEPT ![w] = el]
                  /\ forward_time' = forward_time
                  /\ backward_time' = [backward_time EXCEPT ![w] = bt]
                  /\ total_time' = [total_time EXCEPT ![w] = tt]
    /\ iter_number' = [iter_number EXCEPT ![w] = @ + 1]
    /\ IF batch_idx[w] + 1 < nbatches
         THEN /\ batch_idx' = [batch_idx EXCEPT ![w] = @ + 1]
              /\ pc' = [pc EXCEPT ![w] = "forward"]
         ELSE /\ batch_idx' = batch_idx
              /\ pc' = [pc EXCEPT ![w] = "test"]
    /\ UNCHANGED <<size, epochs, nbatches, status, batch_size, epoch, mode, pshape, param, grad,
                   pidx, inputs, toRoot, fromRoot, data, shard>>

\* test_model clearing the gradients as a training step does
TestModelZeroGrad(w) ==
    /\ Running(w) /\ pc[w] = "test"
    /\ mode' = [mode EXCEPT ![w] = "eval"]
    /\ grad' = [grad EXCEPT ![w] = [p \in Params |-> Zero(pshape[w][p])]]
    /\ epoch' = [epoch EXCEPT ![w] = @ + 1]
    /\ batch_idx' = [batch_idx EXCEPT ![w] = 0]
    /\ pc' = [pc EXCEPT ![w] = IF epoch[w] + 1 < epochs THEN "train_begin" ELSE "finished"]
    /\ UNCHANGED <<stats, size, epochs, nbatches, status, batch_size, iter_number, pshape, param,
                   pidx, inputs, toRoot, fromRoot, data, shard>>

\* lines 67-68 and 130-145: test_model, then the next epoch
TestModel(w) ==
    /\ Running(w) /\ pc[w] = "test"
    /\ mode' = [mode EXCEPT ![w] = "eval"]
    /\ epoch' = [epoch EXCEPT ![w] = @ + 1]
    /\ batch_idx' = [batch_idx EXCEPT ![w] = 0]
    /\ pc' = [pc EXCEPT ![w] = IF epoch[w] + 1 < epochs THEN "train_begin" ELSE "finished"]
    /\ UNCHANGED <<stats, size, epochs, nbatches, status, batch_size, iter_number, pshape, param, grad,
                   pidx, inputs, toRoot, fromRoot, data, shard>>

Next ==
    \/ \E w \in Workers : RunSetup(w)
    \/ \E w \in Workers : TrainBegin(w)
    \/ \E w \in Workers : Forward(w)
    \/ \E w \in Workers : BackwardLocal(w)
    \/ \E w \in Workers : NonRootGather(w)
    \/ \E r \in Workers : RootGatherRecv(r)
    \/ RootReduceScatter
    \/ \E w \in Workers : NonRootScatter(w)
    \/ \E w \in Workers : OptimizerStep(w)
    \/ \E w \in Workers : StepDone(w)
    \/ \E w \in Workers : TestModel(w)

Spec == Init /\ [][Next]_vars

\* ------------------------------------------------- faults of the environment
\* dist.gather / dist.scatter raise (lines 121, 124, 126, 127): nothing in
\* average_gradients, train_model or run catches, so the rank's run ends there.
\* A root that fails inside scatter has sent to some of the ranks already.
TransportFail(w) ==
    /\ Running(w) /\ pc[w] \in {"gather", "scatter"}
    /\ status' = [status EXCEPT ![w] = "RuntimeError"]
    /\ IF w = Root /\ GatherComplete
         THEN \E S \in SUBSET NonRoot :
                /\ S # NonRoot
                /\ fromRoot' = [r \in Workers |->
                      IF r \in S THEN Append(fromRoot[r], OutMsg(r, Mean(Gathered)))
                      ELSE fromRoot[r]]
         ELSE fromRoot' = fromRoot
    /\ UNCHANGED <<stats, size, epochs, nbatches, pc, batch_size, epoch, batch_idx, iter_number, mode,
                   pshape, param, grad, pidx, inputs, toRoot, shard, data>>

\* one rank stops for good (stalled or killed) before it calls into its next round
Halt(w) ==
    /\ Running(w) /\ pc[w] = "gather"
    /\ \A v \in Workers : status[v] # "halted"
    /\ status' = [status EXCEPT ![w] = "halted"]
    /\ UNCHANGED <<stats, size, epochs, nbatches, pc, batch_size, epoch, batch_idx, iter_number, mode,
                   pshape, param, grad, pidx, inputs, toRoot, fromRoot, shard, data>>

NextFault ==
    \/ Next
    \/ \E w \in Workers : TransportFail(w)
    \/ \E w \in Workers : Halt(w)

\* no guard of any action reads a tensor's values, so the faults are explored
\* on one assignment of the data
InitFault == Init /\ shard = [w \in Workers |-> 1]

SpecFault == InitFault /\ [][NextFault]_vars

\* ------------------------------------------- ranks that disagree on a shape
\* average_gradients compares no shapes: the root sizes every receive buffer
\* by its own p.grad (line 120) and what a tensor of another size does to
\* gather or scatter is up to the transport.  The gloo transport of line 148
\* only refuses a message longer than the receive buffer; a shorter one is
\* copied in and the rest of the buffer keeps what it held (for the root's
\* list, what torch.empty left there).
ShapeChoices(p) == IF p = 1 THEN {ParamShape(p), ParamShape(p) + 1} ELSE {ParamShape(p)}

\* what a buffer from torch.empty can hold
Uninit == {0, 1}

InitShape ==
    /\ InitCommon
    /\ pshape \in [Workers -> [Params -> 1 .. (NumParams + 1)]]
    /\ \A w \in Workers : \A p \in Params : pshape[w][p] \in ShapeChoices(p)

\* a tensor received into a longer buffer that held fill
FitTo(t, len, fill) == [i \in 1 .. len |-> IF i <= Len(t) THEN t[i] ELSE Int2R(fill)]

RootGatherRecvMismatch(r) ==
    /\ Running(Root) /\ r \in NonRoot /\ pc[Root] = "gather"
    /\ inputs[r] = NoMsg
    /\ toRoot[r] # <<>>
    /\ Len(Head(toRoot[r]).val) # Len(grad[Root][pidx[Root]])
    /\ toRoot' = [toRoot EXCEPT ![r] = Tail(@)]
    /\ IF Len(Head(toRoot[r]).val) > Len(grad[Root][pidx[Root]])
         THEN /\ status' = [status EXCEPT ![Root] = "RuntimeError"]
              /\ inputs' = inputs
         ELSE /\ \E fill \in Uninit :
                    inputs' = [inputs EXCEPT ![r] =
                        [Head(toRoot[r]) EXCEPT
                            !.val = FitTo(@, Len(grad[Root][pidx[Root]]), fill)]]
              /\ status' = status
    /\ UNCHANGED <<stats, size, epochs, nbatches, pc, batch_size, epoch, batch_idx, iter_number,
                   mode, pshape, param, grad, pidx, fromRoot, data, shard>>

NonRootScatterMismatch(w) ==
    /\ Running(w) /\ w # Root /\ pc[w] = "scatter"
    /\ fromRoot[w] # <<>>
    /\ Len(Head(fromRoot[w]).val) # Len(grad[w][pidx[w]])
    /\ fromRoot' = [fromRoot EXCEPT ![w] = Tail(@)]
    /\ IF Len(Head(fromRoot[w]).val) > Len(grad[w][pidx[w]])
         THEN /\ status' = [status EXCEPT ![w] = "RuntimeError"]
              /\ UNCHANGED <<grad, pc, pidx>>
         ELSE /\ grad' = [grad EXCEPT ![w][pidx[w]] =
                    [i \in 1 .. Len(@) |->
                        IF i <= Len(Head(fromRoot[w]).val)
                          THEN Head(fromRoot[w]).val[i] ELSE @[i]]]
              /\ pc' = [pc EXCEPT ![w] = AfterRound(w)]
              /\ pidx' = [pidx EXCEPT ![w] = @ + 1]
              /\ status' = status
    /\ UNCHANGED <<stats, size, epochs, nbatches, batch_size, epoch, batch_idx, iter_number,
                   mode, pshape, param, inputs, toRoot, data, shard>>

NextShape ==
    \/ Next
    \/ \E r \in Workers : RootGatherRecvMismatch(r)
    \/ \E w \in Workers : NonRootScatterMismatch(w)

SpecShape == InitShape /\ [][NextShape]_vars

\* ------------------------------------------------------ derived quantities
InRound(w) == pc[w] \in {"gather", "scatter"}

\* pidx still stands where average_gradients left it
InStep(w) == pc[w] \in {"gather", "scatter", "optstep", "done", "test"}

\* the rounds rank w has returned from, counted over the run
Returned(w) == StepOf(w) * NumParams + (IF InStep(w) THEN pidx[w] - 1 ELSE 0)

\* the gather messages a rank other than the root has sent
Sent(r) == Returned(r) + (IF pc[r] = "scatter" THEN 1 ELSE 0)

\* the gather messages of rank r the root has taken
Received(r) == Sent(r) - Len(toRoot[r])

\* the rounds rank w has called into
Entered(w) == IF w = Root THEN Returned(w) + (IF pc[w] = "gather" THEN 1 ELSE 0) ELSE Sent(w)

\* the optimizer steps rank w has applied
Applied(w) == IF param[w][1] = <<>> THEN 0 ELSE Len(param[w][1]) - 1

\* rank w holds the result of the round of parameter p of its step StepOf(w)
Holds(w, p) == InStep(w) /\ p < pidx[w]

\* the gradient rank w computed for parameter p in step s
LocalAt(w, s, p) ==
    GradOf(Batch(shard[w], s % nbatches), SubSeq(param[w][p], 1, s + 1), p, pshape[w][p])

\* the elementwise mean, in rank order, of the gradients of parameter p in step s
MeanAt(s, p) == Mean([k \in 1 .. size |-> LocalAt(k - 1, s, p)])

T2(a, b) == <<Int2R(a), Int2R(b)>>

\* --------------------------------------------------------------- claims
\* C1: once ranks have returned from the round of a parameter in a step, they
\* all (the root too) hold the same tensor in p.grad for it, whatever their
\* own gradients were before the round.
C1_Consistency ==
    \A v \in Workers : \A p \in Params :
        Holds(v, p) =>
            \A w \in Workers :
                (Holds(w, p) /\ StepOf(w) = StepOf(v)) => grad[v][p] = grad[w][p]

C1_Witness ==
    /\ size = 3
    /\ \A w \in Workers : Holds(w, 1) /\ StepOf(w) = 0
    /\ LocalAt(0, 0, 1) # LocalAt(1, 0, 1)
    /\ grad[0][1] # LocalAt(0, 0, 1)
    /\ grad[1][1] # LocalAt(1, 0, 1)

\* C2: the tensor a rank holds after a round is the elementwise sum of the N
\* ranks' gradients divided by N; the root keeps rank r's tensor at index r of
\* the gathered list, in whatever order the tensors arrive.
C2_Mean ==
    /\ \A p \in Params : \A s \in {StepOf(v) : v \in {u \in Workers : Holds(u, p)}} :
          LET m == MeanAt(s, p)
          IN  \A v \in Workers : (Holds(v, p) /\ StepOf(v) = s) => grad[v][p] = m
    /\ pc[Root] = "gather" =>
          LET g == Gathered
          IN  \A r \in Workers :
                 (r = Root \/ inputs[r] # NoMsg)
                     => g[r + 1] = LocalAt(r, StepOf(Root), pidx[Root])
    /\ Mean(<<T2(2, 4), T2(6, 8)>>) = T2(4, 6)

\* rank 2's tensor arrived before rank 1's, and the result is still the mean
C2_Witness ==
    /\ size = 3
    /\ pc[Root] = "gather" /\ pidx[Root] = 2
    /\ inputs[2] # NoMsg /\ inputs[1] = NoMsg
    /\ grad[Root][1] = MeanAt(StepOf(Root), 1)
    /\ grad[Root][1][1][2] = 3

C4_BarrierEntry ==
    /\ \A v \in Workers : \A w \in Workers : Returned(v) <= Entered(w)
    /\ \A r \in NonRoot : \A q \in NonRoot :
          Returned(r) + Len(fromRoot[r]) <= Received(q)
    /\ \A r \in NonRoot : Returned(r) <= Returned(Root)

C4_Witness ==
    /\ size = 3
    /\ Returned(Root) = 3
    /\ Returned(1) = 3
    /\ Returned(2) = 2 /\ Len(fromRoot[2]) = 1

\* C5: when a rank never calls into a round, no other rank ever returns from
\* that round: the root stays in gather and every other rank that went in
\* stays in scatter with nothing to receive; nothing ends the wait.
Stalled(w) == status[w] # "running"

\* the last round a stalled rank called into
LastCalled(w) == IF status[w] = "halted" THEN Returned(w) ELSE Entered(w)

C5_StallPropagation ==
    \A w \in Workers : Stalled(w) =>
        \A v \in Workers \ {w} :
            /\ Returned(v) <= LastCalled(w)
            /\ (Running(v) /\ InRound(v) /\ Returned(v) = LastCalled(w)) =>
                  IF v = Root
                    THEN pc[v] = "gather" /\ inputs[w] = NoMsg
                    ELSE pc[v] = "scatter" => fromRoot[v] = <<>>

C5_Witness ==
    /\ size = 3
    /\ status[2] = "halted" /\ Returned(2) = 2
    /\ Running(Root) /\ pc[Root] = "gather" /\ Returned(Root) = 2 /\ inputs[1] # NoMsg
    /\ Running(1) /\ pc[1] = "scatter" /\ Returned(1) = 2

\* C6: every gather message the root takes in the round of parameter p of step
\* s is the sender's gradient of p in s, every scatter message a rank takes in
\* that round is the mean of the N gradients of p in s, and nothing of another
\* parameter's or step's round is taken in its place.
TagOf(m) == <<m.step, m.p>>

C6_NoCrossContamination ==
    /\ \A r \in NonRoot :
          inputs[r] # NoMsg =>
              /\ pc[Root] = "gather"
              /\ TagOf(inputs[r]) = <<StepOf(Root), pidx[Root]>>
    /\ \A r \in NonRoot :
          (pc[Root] = "gather" /\ inputs[r] = NoMsg /\ toRoot[r] # <<>>) =>
              TagOf(Head(toRoot[r])) = <<StepOf(Root), pidx[Root]>>
    /\ \A r \in NonRoot :
          (pc[r] = "scatter" /\ fromRoot[r] # <<>>) =>
              TagOf(Head(fromRoot[r])) = <<StepOf(r), pidx[r]>>
    /\ \A r \in NonRoot : \A i \in 1 .. Len(toRoot[r]) :
          toRoot[r][i].val = LocalAt(r, toRoot[r][i].step, toRoot[r][i].p)
    /\ \A r \in NonRoot : \A i \in 1 .. Len(fromRoot[r]) :
          fromRoot[r][i].val = MeanAt(fromRoot[r][i].step, fromRoot[r][i].p)

\* the second parameter's round of the second step delivers its own mean,
\* which differs from the first parameter's and from the first step's
C6_Witness ==
    /\ size = 3
    /\ pc[1] = "scatter" /\ StepOf(1) = 1 /\ pidx[1] = 2
    /\ fromRoot[1] # <<>>
    /\ Head(fromRoot[1]).val = MeanAt(1, 2)
    /\ MeanAt(1, 2) # MeanAt(0, 2)
    /\ MeanAt(1, 2)[1] # MeanAt(1, 1)[1]

\* C7: ranks that have applied the same number of optimizer steps hold the
\* same parameter values, from the seeded start on.
C7_ParamConsistency ==
    \A v \in Workers : \A w \in Workers :
        (pc[v] # "init" /\ pc[w] # "init" /\ Applied(v) = Applied(w))
            => param[v] = param[w]

C7_Witness ==
    /\ size = 3
    /\ \A w \in Workers : Applied(w) = 2
    /\ shard[0] # shard[1]
    /\ param[0] = param[2]

\* C8: a gradient whose shape differs from the root's makes the round raise
\* and abort (any exception at the root is taken for the ShapeMismatchError);
\* the root neither accepts such a tensor nor completes the round on it.
C8_ShapeMismatchRaises ==
    \A r \in NonRoot : \A p \in Params :
        pshape[r][p] # pshape[Root][p] =>
            /\ Received(r) >= p => status[Root] \in {"ShapeMismatchError", "RuntimeError"}
            /\ Returned(Root) < p

\* C9: from run()'s first lines on, every rank's batch size is the global batch
\* size divided by the world size, and N times it is the global batch size
\* whenever N divides it.
MaxBatchArg == 8

C9_BatchSplit ==
    /\ \A w \in Workers :
          pc[w] # "init" =>
              /\ batch_size[w] = GlobalBatch \div size
              /\ GlobalBatch % size = 0 => size * batch_size[w] = GlobalBatch
    /\ \A b \in (1 .. MaxBatchArg) \cup {GlobalBatch} : \A n \in 1 .. (MaxWorkers + 1) :
          b % n = 0 => n * LocalBatch(b, n) = b
    /\ LocalBatch(256, 4) = 64

C9_Witness ==
    /\ size = 2
    /\ \A w \in Workers : pc[w] = "forward" /\ batch_size[w] = 128

\* C10 as stated: after a transport failure at a rank in step s, that rank
\* applies no update of step s or later and no rank applies the update of s.
Failed(w) == status[w] = "RuntimeError"

C10_AllOrNothing ==
    \A w \in Workers : Failed(w) =>
        /\ InRound(w) /\ Applied(w) <= StepOf(w)
        /\ \A v \in Workers : Applied(v) <= StepOf(w)

\* the failing rank's own tensor of the step's last round was already handed over
ContributedLast(w) ==
    /\ pidx[w] = NumParams
    /\ IF w = Root THEN GatherComplete ELSE pc[w] = "scatter"

\* C10 as the code has it: the failing rank stays at the failing call, no rank
\* applies an update of a step after s, and the update of s is applied by
\* another rank only when the failure came in the round of the step's last
\* parameter after the failing rank's own contribution to it.
C10_FailFast ==
    \A w \in Workers : Failed(w) =>
        /\ InRound(w) /\ Applied(w) <= StepOf(w)
        /\ \A v \in Workers :
              /\ Applied(v) <= StepOf(w) + 1
              /\ Applied(v) = StepOf(w) + 1 => ContributedLast(w)

C10_Witness ==
    /\ size = 3
    /\ Failed(2) /\ pc[2] = "scatter" /\ StepOf(2) = 1
    /\ Applied(2) = 1 /\ Applied(1) = 2 /\ Applied(Root) = 2

\* the state of the step a rank is in
StateOf(w) ==
    CASE pc[w] = "forward" -> "Forward"
      [] pc[w] = "backward" -> "BackwardLocal"
      [] pc[w] \in {"gather", "scatter"} -> "Synchronizing"
      [] pc[w] = "optstep" -> "OptimizerStep"
      [] pc[w] = "done" -> "Done"
      [] OTHER -> "outside"

StepOrder ==
    {<<"Forward", "BackwardLocal">>, <<"BackwardLocal", "Synchronizing">>,
     <<"Synchronizing", "OptimizerStep">>, <<"OptimizerStep", "Done">>}

\* C11: a rank's step goes Forward, BackwardLocal, Synchronizing,
\* OptimizerStep, Done, each once and in that order, and the step after it
\* starts at Forward only from Done; outside Synchronizing the rank's channels
\* and the root's list do not change; a rank at Forward has applied the
\* update of every step before.
C11_StepOrder ==
    /\ [](\A w \in Workers :
            /\ pc[w] \in {"forward", "backward", "gather", "scatter"} => Applied(w) = StepOf(w)
            /\ pc[w] = "done" => Applied(w) = StepOf(w) + 1)
    /\ [][\A w \in Workers :
            /\ StateOf(w)' # StateOf(w) =>
                  \/ /\ <<StateOf(w), StateOf(w)'>> \in StepOrder
                     /\ StepOf(w)' = StepOf(w)
                  \/ /\ StateOf(w) = "Done" /\ StateOf(w)' = "Forward"
                     /\ StepOf(w)' = StepOf(w) + 1
                  \/ /\ StateOf(w) = "Done" /\ pc'[w] = "test"
                  \/ /\ StateOf(w) = "outside" /\ StateOf(w)' \in {"outside", "Forward"}
            /\ (StateOf(w) = StateOf(w)' /\ StateOf(w) # "outside") => StepOf(w)' = StepOf(w)
            /\ StateOf(w) # "Synchronizing" =>
                  /\ toRoot'[w] = toRoot[w] /\ fromRoot'[w] = fromRoot[w]
                  /\ w = Root =>
                        /\ inputs' = inputs
                        /\ \A r \in NonRoot :
                              /\ Len(toRoot'[r]) >= Len(toRoot[r])
                              /\ Len(fromRoot'[r]) <= Len(fromRoot[r])
       ]_vars

C11_Witness ==
    /\ size = 3
    /\ pc[Root] = "gather" /\ StepOf(Root) = 1
    /\ pc[1] = "forward" /\ StepOf(1) = 1 /\ Applied(1) = 1
    /\ pc[2] = "scatter" /\ StepOf(2) = 0 /\ fromRoot[2] # <<>>

\* C12: in every step a rank goes through the round of each parameter once, in
\* the order 1 .. NumParams on every rank: it calls into the round of the next
\* parameter only when it has returned from the one before, sends one gather
\* message and takes (the root: sends every rank) one scatter message per
\* round, and reaches optimizer.step() from the last parameter's round only.
C12_OneRoundPerParam ==
    /\ [](\A w \in Workers :
            /\ InRound(w) => pidx[w] \in Params
            /\ pc[w] \in {"optstep", "done", "test"} => pidx[w] = NumParams + 1)
    /\ [][\A w \in Workers :
            /\ pidx'[w] # pidx[w] =>
                  \/ pc[w] = "backward" /\ pc'[w] = "gather" /\ pidx'[w] = 1
                  \/ /\ InRound(w) /\ pidx'[w] = pidx[w] + 1
                     /\ pc'[w] = (IF pidx[w] < NumParams THEN "gather" ELSE "optstep")
                     /\ IF w = Root
                          THEN \A r \in NonRoot :
                                  /\ Len(fromRoot'[r]) = Len(fromRoot[r]) + 1
                                  /\ fromRoot'[r][Len(fromRoot'[r])].p = pidx[w]
                          ELSE /\ pc[w] = "scatter"
                               /\ fromRoot[w] # <<>> /\ fromRoot'[w] = Tail(fromRoot[w])
                               /\ Head(fromRoot[w]).p = pidx[w]
            /\ (pc'[w] # pc[w] /\ pc'[w] = "optstep") => pidx[w] = NumParams
            /\ (w # Root /\ Len(toRoot'[w]) > Len(toRoot[w])) =>
                  /\ pc[w] = "gather" /\ pc'[w] = "scatter"
                  /\ Len(toRoot'[w]) = Len(toRoot[w]) + 1
                  /\ toRoot'[w][Len(toRoot'[w])].p = pidx[w]
            /\ (w # Root /\ pc[w] = "gather" /\ pc'[w] # pc[w]) =>
                  pc'[w] = "scatter" /\ Len(toRoot'[w]) = Len(toRoot[w]) + 1
       ]_vars

C12_Witness ==
    /\ size = 3
    /\ \A w \in Workers : StepOf(w) = 1
    /\ pc[Root] = "optstep" /\ pidx[Root] = NumParams + 1
    /\ pc[1] = "scatter" /\ pidx[1] = NumParams
    /\ fromRoot[1] # <<>> /\ Head(fromRoot[1]).p = NumParams
    /\ pc[2] = "done"

\* C13: a rank runs test_model once in every epoch, after the epoch's last
\* training step and before the next epoch's first; the pass sends and
\* receives nothing and leaves the parameters and the gradients as they were;
\* a rank that has finished has run it once for each of the epochs.
C13_EvalLocal ==
    /\ [](\A w \in Workers :
            /\ pc[w] = "test" =>
                  /\ epoch[w] < epochs /\ batch_idx[w] = nbatches - 1
                  /\ Applied(w) = (epoch[w] + 1) * nbatches
                  /\ toRoot[w] = <<>> /\ fromRoot[w] = <<>>
            /\ pc[w] \in {"train_begin", "forward"} => Applied(w) >= epoch[w] * nbatches
            /\ pc[w] # "init" => Applied(w) <= (epoch[w] + 1) * nbatches
            /\ pc[w] = "finished" => epoch[w] = epochs)
    /\ [][\A w \in Workers :
            /\ epoch'[w] # epoch[w] => (pc[w] = "test" /\ epoch'[w] = epoch[w] + 1)
            /\ (pc[w] = "test" /\ pc'[w] # pc[w]) =>
                  /\ epoch'[w] = epoch[w] + 1
                  /\ pc'[w] = (IF epoch'[w] < epochs THEN "train_begin" ELSE "finished")
                  /\ toRoot' = toRoot /\ fromRoot' = fromRoot /\ inputs' = inputs
                  /\ param' = param /\ grad' = grad
            /\ (pc'[w] = "test" /\ pc'[w] # pc[w]) => pc[w] = "done"
       ]_vars

C13_Witness ==
    /\ size = 3
    /\ pc[Root] = "test" /\ epoch[Root] = 0
    /\ pc[1] = "train_begin" /\ epoch[1] = 1 /\ mode[1] = "eval"
    /\ grad[1][1] = MeanAt(nbatches - 1, 1) /\ grad[1][1] # Zero(ParamShape(1))
    /\ pc[2] = "scatter" /\ epoch[2] = 0

\* C14: at the first step of every epoch the per-rank state a training step
\* reads, other than the parameters and the optimizer's, is what it was at the
\* first step of the first epoch: step counter 1, loss and timing accumulators
\* 0 (the forward timer is read before line 90 adds to it), model in train mode.
C14_NoCarry ==
    \A w \in Workers :
        (pc[w] = "forward" /\ batch_idx[w] = 0) =>
            /\ iter_number[w] = 1
            /\ epoch_loss[w] = 0
            /\ forward_time[w] = 0 /\ backward_time[w] = 0 /\ total_time[w] = 0
            /\ mode[w] = "train"

\* ------------------------------------------- epochs long enough to report
ReportBatches == 41
ReportWorkers == 2

\* the run of Init with len(train_loader) past the second report, on one
\* assignment of the data (no report reads a tensor)
InitReport ==
    /\ size \in 1 .. ReportWorkers
    /\ epochs = NumEpochs
    /\ nbatches = ReportBatches
    /\ pc = [w \in Workers |-> "init"]
    /\ status = [w \in Workers |-> "running"]
    /\ batch_size = [w \in Workers |-> GlobalBatch]
    /\ epoch = [w \in Workers |-> 0]
    /\ batch_idx = [w \in Workers |-> 0]
    /\ iter_number = [w \in Workers |-> 0]
    /\ mode = [w \in Workers |-> "train"]
    /\ pshape = [w \in Workers |-> [p \in Params |-> ParamShape(p)]]
    /\ param = [w \in Workers |-> [p \in Params |-> <<>>]]
    /\ grad = [w \in Workers |-> [p \in Params |-> <<>>]]
    /\ pidx = [w \in Workers |-> 0]
    /\ inputs = [w \in Workers |-> NoMsg]
    /\ toRoot = [w \in Workers |-> <<>>]
    /\ fromRoot = [w \in Workers |-> <<>>]
    /\ shard = [w \in Workers |-> 1]
    /\ data = [w \in Workers |-> 0]
    /\ epoch_loss = [w \in Workers |-> 0]
    /\ forward_time = [w \in Workers |-> 0]
    /\ backward_time = [w \in Workers |-> 0]
    /\ total_time = [w \in Workers |-> 0]
    /\ printed = [w \in Workers |-> <<>>]

SpecReport == InitReport /\ [][Next]_vars

\* the steps of epoch e rank w has finished (line 114 passed)
StepsDone(w, e) ==
    IF e < epoch[w] THEN nbatches
    ELSE IF e = epoch[w] /\ pc[w] \notin {"init", "train_begin"} THEN iter_number[w] - 1
    ELSE 0

\* rank w has printed the loss of the 20 steps up to step n of epoch e, once
LossAt(w, e, n) ==
    Cardinality({i \in 1 .. Len(printed[w]) :
        printed[w][i] = [kind |-> "loss", epoch |-> e, iter |-> n, over |-> 20]}) = 1

\* rank w has printed the three timings of the 20 steps up to step n of epoch e, once
TimeAt(w, e, n) ==
    Cardinality({i \in 1 .. Len(printed[w]) :
        printed[w][i] = [kind |-> "time", epoch |-> e, iter |-> n,
                         forward |-> 20, backward |-> 20, total |-> 20]}) = 1

\* nothing is printed for a step that is not a multiple of 20 or not yet over,
\* nothing twice, and the accumulators hold the steps since the last report
ReportsOnlyEvery20(w) ==
    /\ \A i \in 1 .. Len(printed[w]) :
          /\ printed[w][i].iter % 20 = 0
          /\ printed[w][i].iter <= StepsDone(w, printed[w][i].epoch)
          /\ \A j \in 1 .. Len(printed[w]) : printed[w][j] = printed[w][i] => j = i
    /\ pc[w] \in {"forward", "backward", "gather", "scatter", "optstep", "done"} =>
          /\ epoch_loss[w] = (iter_number[w] - 1) % 20
          /\ backward_time[w] = (iter_number[w] - 1) % 20
          /\ total_time[w] = (iter_number[w] - 1) % 20
          /\ forward_time[w] = ((iter_number[w] - 1) % 20) + (IF pc[w] = "forward" THEN 0 ELSE 1)

\* C15 as stated: at every step of an epoch whose index is a multiple of 20 a
\* rank prints the mean loss and the three timings of the last 20 steps and
\* resets the accumulators; it prints at no other step.
C15_ReportEvery20 ==
    \A w \in Workers :
        /\ ReportsOnlyEvery20(w)
        /\ \A e \in 0 .. (epochs - 1) : \A n \in 1 .. nbatches :
              (n % 20 = 0 /\ n <= StepsDone(w, e)) => (LossAt(w, e, n) /\ TimeAt(w, e, n))

\* C15 as the code has it: the loss at every multiple of 20, the timings at
\* every multiple of 20 but step 20 itself, the accumulators reset at every
\* multiple of 20 (step 20 too), nothing at any other step.
C15_ReportTimingAfter20 ==
    \A w \in Workers :
        /\ ReportsOnlyEvery20(w)
        /\ \A e \in 0 .. (epochs - 1) : \A n \in 1 .. nbatches :
              (n % 20 = 0 /\ n <= StepsDone(w, e)) =>
                  /\ LossAt(w, e, n)
                  /\ IF n = 20 THEN \A i \in 1 .. Len(printed[w]) :
                                       ~(printed[w][i].kind = "time" /\ printed[w][i].epoch = e
                                         /\ printed[w][i].iter = n)
                      ELSE TimeAt(w, e, n)

C15_Witness ==
    /\ size = 2
    /\ pc[1] = "forward" /\ epoch[1] = 1 /\ iter_number[1] = 41
    /\ LossAt(1, 0, 20) /\ LossAt(1, 0, 40) /\ TimeAt(1, 0, 40)
    /\ LossAt(1, 1, 20) /\ TimeAt(1, 1, 40) /\ ~TimeAt(1, 1, 20)
    /\ epoch_loss[1] = 0 /\ Len(printed[1]) = 6

\* ------------------------------------------------------------- fairness
\* what rank w itself does; the root's gather and scatter are the root's doing
WorkerNext(w) ==
    \/ RunSetup(w) \/ TrainBegin(w) \/ Forward(w) \/ BackwardLocal(w)
    \/ NonRootGather(w) \/ NonRootScatter(w)
    \/ (w = Root /\ ((\E r \in Workers : RootGatherRecv(r)) \/ RootReduceScatter))
    \/ OptimizerStep(w) \/ StepDone(w) \/ TestModel(w)

\* every rank is a process of its own that goes on whenever it can; a message
\* sent is delivered (the receive that waits for it returns)
Fairness == \A w \in 0 .. (MaxWorkers - 1) : WF_vars(w \in Workers /\ WorkerNext(w))

\* (on one assignment of the data, as for the faults: no guard reads a tensor)
SpecLive == InitFault /\ [][Next]_vars /\ Fairness

\* C16: without failures and with the same epochs, batches and parameters on
\* every rank, some rank can take a step as long as one is unfinished, no rank
\* stays inside a round for ever, and every rank finishes the run.
C16_Termination ==
    /\ []((\E w \in Workers : pc[w] # "finished") => ENABLED Next)
    /\ \A w \in 0 .. (MaxWorkers - 1) : []<>(w \in Workers => ~InRound(w))
    /\ <>[](\A w \in Workers : pc[w] = "finished" /\ Applied(w) = epochs * nbatches)

C16_Witness ==
    /\ size = 3
    /\ \A w \in Workers : pc[w] = "finished" /\ Returned(w) = epochs * nbatches * NumParams
    /\ \A w \in Workers : toRoot[w] = <<>> /\ fromRoot[w] = <<>>

\* C17: the numbers of rounds any two ranks have returned from differ by at
\* most one: no rank returns from round k+1 while some rank has not returned
\* from round k, though a rank may have called into round k+1 by then.
C17_BoundedSkew ==
    \A v \in Workers : \A w \in Workers :
        /\ Returned(v) - Returned(w) <= 1
        /\ Entered(v) - Returned(w) <= 2

\* the root and rank 1 are in round 4 while rank 2 has not taken round 3's result
C17_Witness ==
    /\ size = 3
    /\ pc[Root] = "gather" /\ Returned(Root) = 3 /\ inputs[1] # NoMsg
    /\ pc[1] = "scatter" /\ Returned(1) = 3
    /\ pc[2] = "scatter" /\ Returned(2) = 2 /\ Len(fromRoot[2]) = 1
    /\ Entered(1) - Returned(2) = 2

\* the round a message belongs to, counted over the run from 1
RoundNo(m) == m.step * NumParams + m.p

\* C18: each channel between the root and another rank holds at most one
\* message; per round the root takes one gather message of every other rank
\* and sends every other rank one scatter message (N-1 each way); the only
\* channels are those of the root, which sends itself nothing; a message in
\* flight belongs to a round its receiver has not returned from, so once
\* every rank is back from its rounds nothing is in flight.
C18_ChannelBound ==
    /\ \A r \in NonRoot : Len(toRoot[r]) <= 1 /\ Len(fromRoot[r]) <= 1
    /\ \A r \in NonRoot :
          /\ Returned(r) + Len(fromRoot[r]) = Returned(Root)
          /\ Sent(r) = Len(toRoot[r]) + Returned(Root) + (IF inputs[r] # NoMsg THEN 1 ELSE 0)
    /\ toRoot[Root] = <<>> /\ fromRoot[Root] = <<>> /\ inputs[Root] = NoMsg
    /\ DOMAIN toRoot = Workers /\ DOMAIN fromRoot = Workers
    /\ \A r \in NonRoot :
          /\ \A i \in 1 .. Len(toRoot[r]) : RoundNo(toRoot[r][i]) = Returned(Root) + 1
          /\ \A i \in 1 .. Len(fromRoot[r]) : RoundNo(fromRoot[r][i]) = Returned(r) + 1
          /\ inputs[r] # NoMsg => RoundNo(inputs[r]) = Returned(Root) + 1
    /\ (\A w \in Workers : Entered(w) = Returned(w)) =>
          \A w \in Workers : toRoot[w] = <<>> /\ fromRoot[w] = <<>> /\ inputs[w] = NoMsg

\* one message each way in flight at once, of two different rounds
C18_Witness ==
    /\ size = 3
    /\ Returned(Root) = 3 /\ pc[Root] = "gather"
    /\ Len(toRoot[1]) = 1 /\ RoundNo(Head(toRoot[1])) = 4
    /\ Len(fromRoot[2]) = 1 /\ RoundNo(Head(fromRoot[2])) = 3

====
